---------------------------- MODULE Spec2Model ----------------------------
(***************************************************************************)
(* A model of nix::sys::signal (src/src/sys/signal.rs): signal sets, the   *)
(* calling thread's signal mask, synchronous wait, raise/kill and          *)
(* sigaction.  Every wrapper of the module is one libc call followed by    *)
(* Errno::result; the libc calls are modelled with the behaviour of the    *)
(* Linux/glibc platform the non-macos cfg branch of the file targets:      *)
(*   - signal numbers 1..64 are valid, 32 and 33 are reserved by the       *)
(*     threading library and refused by sigaddset/sigdelset/sigaction;     *)
(*   - SIGKILL and SIGSTOP are never blocked, caught or ignored;           *)
(*   - the sig*set functions, raise, kill and sigaction return -1 and set  *)
(*     errno on failure; pthread_sigmask and sigwait return the error      *)
(*     number itself;                                                      *)
(*   - standard signals do not queue: the pending signals are a set.       *)
(* A SigSet is modelled by the set of signal numbers whose bit is set.     *)
(***************************************************************************)
EXTENDS Integers, FiniteSets, Sequences, TLC

VARIABLES
    s,        \* the SigSet value `self` the set operations mutate
    o,        \* a second SigSet value, the `other` of extend
    sa,       \* the SigAction value the program holds
    mask,     \* the calling thread's blocked-signal mask (OS state)
    pending,  \* signals pending for the calling thread (OS state)
    handled,  \* signals for which an asynchronous handler has run
    alive,    \* FALSE once a signal's default action ended the process
    disp,     \* the process-wide dispositions, one per signal number
    folded,   \* block = union, unblock = difference, set_mask = replacement,
              \* applied in call order to the mask the thread started with
    last      \* the last call made: its arguments, pre-state and result

vars == <<s, o, sa, mask, pending, handled, alive, disp, folded, last>>

--------------------------------------------------------------------------
(* Program constants *)

NSIG == 32

SIG_BLOCK == 0

SIG_UNBLOCK == 1

SIG_SETMASK == 2

SIGKILL == 9

SIGUSR1 == 10

SIGUSR2 == 12

SIGSTOP == 19

SIGCHLD == 17

SIGCONT == 18

SIGTSTP == 20

SIGTTIN == 21

SIGTTOU == 22

SIGURG == 23

SIGWINCH == 28

\* One more than the largest signal number the platform's libc accepts.
KernelNSIG == 65

EINVAL == 22

ESRCH == 3

\* Signal numbers the threading library keeps for itself.
InternalSigs == {NSIG, NSIG + 1}

\* The two signals that can be neither blocked, caught nor ignored.
Unblockable == {SIGKILL, SIGSTOP}

ValidSigs == 1 .. (KernelNSIG - 1)

--------------------------------------------------------------------------
(* Bounds *)

\* How many of the lowest signal numbers (1, 2, ...) are drawn as inputs,
\* besides the named and the boundary ones.
NumPlainSigs == 1

--------------------------------------------------------------------------
(* Errno::result: -1 is the error sentinel, anything else is the value. *)

ErrnoResult(res, errno) ==
    IF res = -1 THEN [ok |-> FALSE, errno |-> errno, val |-> res]
    ELSE [ok |-> TRUE, errno |-> 0, val |-> res]

--------------------------------------------------------------------------
(* libc: the signal-set functions.  Each yields the int it returns, the    *)
(* errno it sets and the value it leaves in *set.                          *)

libc_sigemptyset(set) == [res |-> 0, errno |-> 0, set |-> {}]

libc_sigfillset(set) == [res |-> 0, errno |-> 0, set |-> ValidSigs \ InternalSigs]

libc_sigaddset(set, signum) ==
    IF signum <= 0 \/ signum >= KernelNSIG \/ signum \in InternalSigs
    THEN [res |-> -1, errno |-> EINVAL, set |-> set]
    ELSE [res |-> 0, errno |-> 0, set |-> set \cup {signum}]

libc_sigdelset(set, signum) ==
    IF signum <= 0 \/ signum >= KernelNSIG \/ signum \in InternalSigs
    THEN [res |-> -1, errno |-> EINVAL, set |-> set]
    ELSE [res |-> 0, errno |-> 0, set |-> set \ {signum}]

libc_sigismember(set, signum) ==
    IF signum <= 0 \/ signum >= KernelNSIG
    THEN [res |-> -1, errno |-> EINVAL]
    ELSE [res |-> IF signum \in set THEN 1 ELSE 0, errno |-> 0]

--------------------------------------------------------------------------
(* SigSet: each operation yields its Result (ok, errno), the value of the  *)
(* set afterwards and whether the OS call reported an error.               *)

all == libc_sigfillset({}).set

empty == libc_sigemptyset({}).set

add(self, signum) ==
    LET c == libc_sigaddset(self, signum)
        r == ErrnoResult(c.res, c.errno)
    IN  [ok |-> r.ok, errno |-> r.errno, set |-> c.set, oserr |-> c.res = -1]

clear_keeps(self) ==
    [ok |-> TRUE, errno |-> 0, set |-> self, oserr |-> FALSE]

clear(self) ==
    LET c == libc_sigemptyset(self)
        r == ErrnoResult(c.res, c.errno)
    IN  [ok |-> r.ok, errno |-> r.errno, set |-> c.set, oserr |-> c.res = -1]

remove_adds(self, signum) ==
    LET c == libc_sigaddset(self, signum)
        r == ErrnoResult(c.res, c.errno)
    IN  [ok |-> r.ok, errno |-> r.errno, set |-> c.set, oserr |-> c.res = -1]

remove(self, signum) ==
    LET c == libc_sigdelset(self, signum)
        r == ErrnoResult(c.res, c.errno)
    IN  [ok |-> r.ok, errno |-> r.errno, set |-> c.set, oserr |-> c.res = -1]

\* Ok(true) for 1, Ok(false) for 0; Errno::result has already taken -1.
contains(self, signum) ==
    LET c == libc_sigismember(self, signum)
        r == ErrnoResult(c.res, c.errno)
    IN  [ok |-> r.ok, errno |-> r.errno, val |-> r.ok /\ r.val = 1,
         oserr |-> c.res = -1]

\* The loop of extend from index i on: `for i in 1..NSIG`, each try! ending
\* the loop with the set as far as it was built.
RECURSIVE extendFrom(_, _, _)
extendFrom(i, self, other) ==
    IF i >= NSIG THEN [ok |-> TRUE, errno |-> 0, set |-> self, oserr |-> FALSE]
    ELSE LET c == contains(other, i) IN
         IF ~c.ok THEN [ok |-> FALSE, errno |-> c.errno, set |-> self, oserr |-> TRUE]
         ELSE IF c.val
              THEN LET a == add(self, i) IN
                   IF ~a.ok THEN a ELSE extendFrom(i + 1, a.set, other)
              ELSE extendFrom(i + 1, self, other)

extend_replaces(self, other) == extendFrom(1, empty, other)

extend(self, other) == extendFrom(1, self, other)

--------------------------------------------------------------------------
(* The OS: delivery of signals and the calls behind the mask operations,   *)
(* wait, raise, kill and sigaction.                                        *)

\* The disposition every signal starts with.
NoAct == [handler |-> "SigDfl", flags |-> {}, mask |-> {}]

\* Signals whose default action leaves the process running.
DefaultIgnored == {SIGCHLD, SIGURG, SIGWINCH, SIGCONT}

DefaultStops == {SIGSTOP, SIGTSTP, SIGTTIN, SIGTTOU}

Terminates(sig) == sig \notin DefaultIgnored \cup DefaultStops

Catches(act) == act.handler \in {"Handler", "SigAction"}

\* Every pending signal the mask m does not block is delivered: a handler
\* runs, an ignored signal is dropped, a default action takes effect.
Deliver(m, p, h, al, d) ==
    LET due == p \ m IN
    [pending |-> p \cap m,
     handled |-> h \cup {x \in due : Catches(d[x])},
     alive   |-> al /\ \A x \in due : ~(d[x].handler = "SigDfl" /\ Terminates(x))]

ApplyHow(how, m, set) ==
    IF how = SIG_BLOCK THEN m \cup set
    ELSE IF how = SIG_UNBLOCK THEN m \ set
    ELSE set

\* Returns 0 or the error number itself.  The old mask is written only on
\* success; SIGKILL, SIGSTOP and the internal signals are never blocked.
libc_pthread_sigmask(m, how, hasSet, set, wantOld) ==
    IF hasSet /\ how \notin {SIG_BLOCK, SIG_UNBLOCK, SIG_SETMASK}
    THEN [res |-> EINVAL, mask |-> m, wrote |-> FALSE, old |-> {}]
    ELSE [res |-> 0,
          mask |-> IF hasSet
                   THEN ApplyHow(how, m, set) \ (Unblockable \cup InternalSigs)
                   ELSE m,
          wrote |-> wantOld, old |-> m]

\* Returns 0 and the lowest pending signal of the set, which it consumes.
\* It is called only when such a signal is pending: otherwise the thread
\* stays suspended.
Lowest(S) == CHOOSE x \in S : \A y \in S : x <= y

libc_sigwait(p, set) ==
    LET got == Lowest(p \cap set) IN
    [res |-> 0, sig |-> got, pending |-> p \ {got}, wrote |-> TRUE]

\* Signal 0 only probes the target; a signal the thread blocks stays pending.
libc_raise(p, signum) ==
    IF signum < 0 \/ signum >= KernelNSIG
    THEN [res |-> -1, errno |-> EINVAL, pending |-> p]
    ELSE [res |-> 0, errno |-> 0,
          pending |-> IF signum = 0 THEN p ELSE p \cup {signum}]

libc_kill(p, pid, signum) ==
    IF signum < 0 \/ signum >= KernelNSIG
    THEN [res |-> -1, errno |-> EINVAL, pending |-> p]
    ELSE IF pid # "self"
    THEN [res |-> -1, errno |-> ESRCH, pending |-> p]
    ELSE [res |-> 0, errno |-> 0,
          pending |-> IF signum = 0 THEN p ELSE p \cup {signum}]

\* Replaces the disposition of signum and writes the old one; a signal set
\* to be ignored is dropped from the pending ones.
libc_sigaction(d, p, signum, act) ==
    IF signum <= 0 \/ signum >= KernelNSIG
       \/ signum \in Unblockable \cup InternalSigs
    THEN [res |-> -1, errno |-> EINVAL, disp |-> d, pending |-> p,
          wrote |-> FALSE, old |-> NoAct]
    ELSE [res |-> 0, errno |-> 0, disp |-> [d EXCEPT ![signum] = act],
          pending |-> IF act.handler = "SigIgn"
                         \/ (act.handler = "SigDfl" /\ signum \in DefaultIgnored)
                      THEN p \ {signum} ELSE p,
          wrote |-> TRUE, old |-> d[signum]]

--------------------------------------------------------------------------
(* The wrappers.  g stands for the uninitialized value of an output the    *)
(* wrapper hands back without the OS having written it.                    *)

pthread_sigmask_drops_old(m, how, hasSet, set, wantOld) ==
    LET c == libc_pthread_sigmask(m, how, hasSet, set, wantOld)
        r == ErrnoResult(c.res, 0)
    IN  [ok |-> r.ok, errno |-> r.errno, mask |-> c.mask,
         wrote |-> c.wrote, old |-> c.mask, oserr |-> c.res # 0]

pthread_sigmask(m, how, hasSet, set, wantOld) ==
    IF ~hasSet /\ ~wantOld
    THEN [ok |-> TRUE, errno |-> 0, mask |-> m, wrote |-> FALSE, old |-> {},
          oserr |-> FALSE]
    ELSE LET c == libc_pthread_sigmask(m, how, hasSet, set, wantOld)
             r == ErrnoResult(c.res, 0)
         IN  [ok |-> r.ok, errno |-> r.errno, mask |-> c.mask,
              wrote |-> c.wrote, old |-> c.old, oserr |-> c.res # 0]

\* SigFlags::empty() has no bit set.
thread_get_mask(m, g) ==
    LET r == pthread_sigmask(m, 0, FALSE, {}, TRUE) IN
    [r EXCEPT !.old = IF r.wrote THEN r.old ELSE g]

thread_set_mask(m, self) == pthread_sigmask(m, SIG_SETMASK, TRUE, self, FALSE)

thread_block_replaces(m, self) == pthread_sigmask(m, SIG_SETMASK, TRUE, self, FALSE)

thread_block(m, self) == pthread_sigmask(m, SIG_BLOCK, TRUE, self, FALSE)

thread_unblock(m, self) == pthread_sigmask(m, SIG_UNBLOCK, TRUE, self, FALSE)

thread_swap_mask(m, self, how, g) ==
    LET r == pthread_sigmask(m, how, TRUE, self, TRUE) IN
    [r EXCEPT !.old = IF r.wrote THEN r.old ELSE g]

wait_returns_res(p, self, g) ==
    LET c == libc_sigwait(p, self)
        r == ErrnoResult(c.res, 0)
    IN  [ok |-> r.ok, errno |-> r.errno, sig |-> r.val,
         pending |-> c.pending, wrote |-> c.wrote, oserr |-> c.res # 0]

wait(p, self, g) ==
    LET c == libc_sigwait(p, self)
        r == ErrnoResult(c.res, 0)
    IN  [ok |-> r.ok, errno |-> r.errno, sig |-> IF c.wrote THEN c.sig ELSE g,
         pending |-> c.pending, wrote |-> c.wrote, oserr |-> c.res # 0]

raise(p, signum) ==
    LET c == libc_raise(p, signum)
        r == ErrnoResult(c.res, c.errno)
    IN  [ok |-> r.ok, errno |-> r.errno, pending |-> c.pending,
         oserr |-> c.res = -1]

kill(p, pid, signum) ==
    LET c == libc_kill(p, pid, signum)
        r == ErrnoResult(c.res, c.errno)
    IN  [ok |-> r.ok, errno |-> r.errno, pending |-> c.pending,
         oserr |-> c.res = -1]

\* SigAction::new: SA_SIGINFO follows the handler variant.
SigActionNew_keeps_flags(handler, flags, m) ==
    [handler |-> handler, flags |-> flags, mask |-> m]

SigActionNew(handler, flags, m) ==
    [handler |-> handler,
     flags |-> IF handler = "SigAction" THEN flags \cup {"SA_SIGINFO"}
               ELSE flags \ {"SA_SIGINFO"},
     mask |-> m]

sigaction_only_queries(d, p, signum, act) ==
    LET c == libc_sigaction(d, p, signum, act)
        r == ErrnoResult(c.res, c.errno)
    IN  [ok |-> r.ok, errno |-> r.errno, disp |-> d, pending |-> p,
         old |-> c.old, wrote |-> c.wrote, oserr |-> c.res = -1]

\* On Err no SigAction is handed back: `old` means something only with ok.
sigaction(d, p, signum, act) ==
    LET c == libc_sigaction(d, p, signum, act)
        r == ErrnoResult(c.res, c.errno)
    IN  [ok |-> r.ok, errno |-> r.errno, disp |-> c.disp, pending |-> c.pending,
         old |-> c.old, wrote |-> c.wrote, oserr |-> c.res = -1]

--------------------------------------------------------------------------
(* The record of the last call.  Fields a call does not use keep the       *)
(* values of NoCall.                                                       *)

NoCall ==
    [op |-> "none", num |-> 0, how |-> 0, pid |-> 0, arg |-> {}, pre |-> {},
     prePending |-> {}, preHandled |-> {}, preDisp |-> <<>>,
     ok |-> TRUE, errno |-> 0, oserr |-> FALSE, wrote |-> TRUE,
     bool |-> FALSE, set |-> {}, sig |-> 0, act |-> NoAct, new |-> NoAct,
     handler |-> "SigDfl", flags |-> {}]

--------------------------------------------------------------------------
(* Inputs of the set operations *)

SigNumInputs ==
    {0} \cup (1 .. NumPlainSigs)
        \cup {SIGUSR1, NSIG - 1, NSIG, NSIG + 2, KernelNSIG - 1, KernelNSIG}

OtherInputs ==
    {empty, all, {SIGUSR1}, {1, NSIG - 1}, {SIGUSR1, NSIG + 2},
     {NSIG - 1, KernelNSIG - 1}}

--------------------------------------------------------------------------
(* The set operations as steps of a program holding two SigSets *)

OsInit ==
    /\ mask = {}
    /\ pending = {}
    /\ handled = {}
    /\ alive = TRUE
    /\ disp = [n \in ValidSigs |-> NoAct]
    /\ folded = mask

InitSet ==
    /\ s = empty
    /\ o \in OtherInputs
    /\ sa = NoAct
    /\ OsInit
    /\ last = NoCall

OsUnchanged == UNCHANGED <<sa, mask, pending, handled, alive, disp, folded>>

Empty ==
    /\ s' = empty
    /\ last' = [NoCall EXCEPT !.op = "empty", !.pre = s]
    /\ UNCHANGED o /\ OsUnchanged

All ==
    /\ s' = all
    /\ last' = [NoCall EXCEPT !.op = "all", !.pre = s]
    /\ UNCHANGED o /\ OsUnchanged

Add(i) ==
    LET r == add(s, i) IN
    /\ s' = r.set
    /\ last' = [NoCall EXCEPT !.op = "add", !.num = i, !.pre = s,
                              !.ok = r.ok, !.errno = r.errno, !.oserr = r.oserr]
    /\ UNCHANGED o /\ OsUnchanged

Remove(i) ==
    LET r == remove(s, i) IN
    /\ s' = r.set
    /\ last' = [NoCall EXCEPT !.op = "remove", !.num = i, !.pre = s,
                              !.ok = r.ok, !.errno = r.errno, !.oserr = r.oserr]
    /\ UNCHANGED o /\ OsUnchanged

Clear ==
    LET r == clear(s) IN
    /\ s' = r.set
    /\ last' = [NoCall EXCEPT !.op = "clear", !.pre = s,
                              !.ok = r.ok, !.errno = r.errno, !.oserr = r.oserr]
    /\ UNCHANGED o /\ OsUnchanged

Extend ==
    LET r == extend(s, o) IN
    /\ s' = r.set
    /\ last' = [NoCall EXCEPT !.op = "extend", !.pre = s, !.arg = o,
                              !.ok = r.ok, !.errno = r.errno, !.oserr = r.oserr]
    /\ UNCHANGED o /\ OsUnchanged

Contains(i) ==
    LET r == contains(s, i) IN
    /\ last' = [NoCall EXCEPT !.op = "contains", !.num = i, !.pre = s,
                              !.ok = r.ok, !.errno = r.errno, !.oserr = r.oserr,
                              !.bool = r.val]
    /\ UNCHANGED <<s, o>> /\ OsUnchanged

NextSet ==
    \/ Empty
    \/ All
    \/ \E i \in SigNumInputs : Add(i)
    \/ \E i \in SigNumInputs : Remove(i)
    \/ Clear
    \/ Extend
    \/ \E i \in SigNumInputs : Contains(i)

SpecSet == InitSet /\ [][NextSet]_vars

--------------------------------------------------------------------------
(* The mask operations, wait, raise and kill as steps of one thread *)

SetInputs ==
    {empty, {SIGUSR1}, {SIGUSR1, SIGUSR2}, {SIGUSR2, SIGKILL}, all}

\* Every union of SIG_BLOCK, SIG_UNBLOCK and SIG_SETMASK a SigFlags can hold.
HowInputs == {SIG_BLOCK, SIG_UNBLOCK, SIG_SETMASK, SIG_UNBLOCK + SIG_SETMASK}

\* What an uninitialized SigSet or SigNum may happen to hold.
GarbageSets == {{}, {SIGUSR2, NSIG}}

GarbageNums == {0, SIGUSR2}

RaiseInputs == {0, SIGKILL, SIGUSR1, SIGUSR2, KernelNSIG}

PidInputs == {"self", "absent"}

InitMask ==
    /\ s = empty
    /\ o = empty
    /\ sa = NoAct
    /\ mask \in {{}, {SIGUSR2}}
    /\ pending = {}
    /\ handled = {}
    /\ alive = TRUE
    /\ \E h \in {"SigDfl", "SigIgn", "Handler"} :
         disp = [n \in ValidSigs |->
                   IF n \in {SIGUSR1, SIGUSR2} THEN SigActionNew(h, {}, {})
                   ELSE NoAct]
    /\ folded = mask
    /\ last = NoCall

\* The OS state after a call that leaves the mask m and the pending signals p.
Settle(m, p) ==
    LET dl == Deliver(m, p, handled, alive, disp) IN
    /\ mask' = m
    /\ pending' = dl.pending
    /\ handled' = dl.handled
    /\ alive' = dl.alive

Called(op, r) ==
    [NoCall EXCEPT !.op = op, !.pre = mask, !.prePending = pending,
                   !.preHandled = handled,
                   !.ok = r.ok, !.errno = r.errno, !.oserr = r.oserr]

ThreadGetMask(g) ==
    LET r == thread_get_mask(mask, g) IN
    /\ alive
    /\ Settle(r.mask, pending)
    /\ last' = [Called("thread_get_mask", r) EXCEPT !.set = r.old, !.wrote = r.wrote]
    /\ UNCHANGED <<s, o, sa, disp, folded>>

ThreadSetMask(set) ==
    LET r == thread_set_mask(mask, set) IN
    /\ alive
    /\ Settle(r.mask, pending)
    /\ folded' = set
    /\ last' = [Called("thread_set_mask", r) EXCEPT !.arg = set]
    /\ UNCHANGED <<s, o, sa, disp>>

ThreadBlock(set) ==
    LET r == thread_block(mask, set) IN
    /\ alive
    /\ Settle(r.mask, pending)
    /\ folded' = folded \cup set
    /\ last' = [Called("thread_block", r) EXCEPT !.arg = set]
    /\ UNCHANGED <<s, o, sa, disp>>

ThreadUnblock(set) ==
    LET r == thread_unblock(mask, set) IN
    /\ alive
    /\ Settle(r.mask, pending)
    /\ folded' = folded \ set
    /\ last' = [Called("thread_unblock", r) EXCEPT !.arg = set]
    /\ UNCHANGED <<s, o, sa, disp>>

\* A swap starts a new sequence of block/unblock/set_mask calls: the fold
\* restarts from the mask it leaves.
ThreadSwapMask(set, how, g) ==
    LET r == thread_swap_mask(mask, set, how, g) IN
    /\ alive
    /\ Settle(r.mask, pending)
    /\ folded' = r.mask
    /\ last' = [Called("thread_swap_mask", r) EXCEPT !.arg = set, !.how = how,
                    !.set = r.old, !.wrote = r.wrote]
    /\ UNCHANGED <<s, o, sa, disp>>

Wait(set, g) ==
    /\ alive
    /\ pending \cap set # {}
    /\ LET r == wait(pending, set, g) IN
       /\ Settle(mask, r.pending)
       /\ last' = [Called("wait", r) EXCEPT !.arg = set, !.sig = r.sig,
                       !.wrote = r.wrote,
                       \* the signal the call just before raised, if any
                       !.num = IF last.op = "raise" /\ last.ok THEN last.num ELSE 0]
    /\ UNCHANGED <<s, o, sa, disp, folded>>

Raise(signum) ==
    LET r == raise(pending, signum) IN
    /\ alive
    /\ Settle(mask, r.pending)
    /\ last' = [Called("raise", r) EXCEPT !.num = signum]
    /\ UNCHANGED <<s, o, sa, disp, folded>>

Kill(pid, signum) ==
    LET r == kill(pending, pid, signum) IN
    /\ alive
    /\ Settle(mask, r.pending)
    /\ last' = [Called("kill", r) EXCEPT !.num = signum, !.pid = pid]
    /\ UNCHANGED <<s, o, sa, disp, folded>>

NextMask ==
    \/ \E g \in GarbageSets : ThreadGetMask(g)
    \/ \E set \in SetInputs : ThreadSetMask(set)
    \/ \E set \in SetInputs : ThreadBlock(set)
    \/ \E set \in SetInputs : ThreadUnblock(set)
    \/ \E set \in SetInputs, how \in HowInputs, g \in GarbageSets :
         ThreadSwapMask(set, how, g)
    \/ \E set \in SetInputs, g \in GarbageNums : Wait(set, g)
    \/ \E signum \in RaiseInputs : Raise(signum)
    \/ \E pid \in PidInputs, signum \in RaiseInputs : Kill(pid, signum)

SpecMask == InitMask /\ [][NextMask]_vars

--------------------------------------------------------------------------
(* Building and installing dispositions, and raising the signals they are  *)
(* installed for                                                           *)

HandlerInputs == {"SigDfl", "SigIgn", "Handler", "SigAction"}

FlagInputs == {{}, {"SA_SIGINFO"}, {"SA_RESTART"}, {"SA_RESTART", "SA_SIGINFO"}}

ActMaskInputs == {{SIGUSR2}}

\* 0, SIGKILL, NSIG (kept by the threading library) and KernelNSIG are
\* refused; SIGUSR1 and the real-time signal NSIG + 2 are accepted.
ActSigInputs == {0, SIGKILL, SIGUSR1, NSIG, NSIG + 2, KernelNSIG}

InitAct ==
    /\ s = empty
    /\ o = empty
    /\ sa = NoAct
    /\ mask \in {{}, {SIGUSR1}}
    /\ pending = {}
    /\ handled = {}
    /\ alive = TRUE
    /\ disp = [n \in ValidSigs |-> NoAct]
    /\ folded = mask
    /\ last = NoCall

New(handler, flags, m) ==
    /\ alive
    /\ sa' = SigActionNew(handler, flags, m)
    /\ last' = [NoCall EXCEPT !.op = "new", !.handler = handler,
                              !.flags = flags, !.arg = m]
    /\ UNCHANGED <<s, o, mask, pending, handled, alive, disp, folded>>

\* sigaction(signum, &sa); with keep the program holds on to the returned
\* disposition, to install it again later.
Sigaction(signum, keep) ==
    LET r == sigaction(disp, pending, signum, sa) IN
    /\ alive
    /\ disp' = r.disp
    /\ pending' = r.pending
    /\ sa' = IF keep /\ r.ok THEN r.old ELSE sa
    /\ last' = [Called("sigaction", r) EXCEPT !.num = signum, !.new = sa,
                    !.act = r.old, !.preDisp = disp, !.wrote = r.wrote]
    /\ UNCHANGED <<s, o, mask, handled, alive, folded>>

NextAct ==
    \/ \E h \in HandlerInputs, f \in FlagInputs, m \in ActMaskInputs : New(h, f, m)
    \/ \E signum \in ActSigInputs, keep \in BOOLEAN : Sigaction(signum, keep)
    \/ \E signum \in {0, SIGUSR1} : Raise(signum)

SpecAct == InitAct /\ [][NextAct]_vars

--------------------------------------------------------------------------
(* Claims about the set operations, checked under SpecSet *)

InRange(i) == i >= 1 /\ i < NSIG

IsOkBool(r, b) == r.ok /\ r.val = b

\* C8: for every identifier i in [1, NSIG), contains(i) is Ok(false) on
\* SigSet::empty() and Ok(true) on SigSet::all(); clear() succeeds on any
\* set and leaves contains(i) Ok(false) for every such i.
C8_EmptyAllClear ==
    /\ last.op = "empty" => \A i \in 1 .. (NSIG - 1) : IsOkBool(contains(s, i), FALSE)
    /\ last.op = "all" => \A i \in 1 .. (NSIG - 1) : IsOkBool(contains(s, i), TRUE)
    /\ last.op = "clear" =>
         /\ last.ok
         /\ \A i \in 1 .. (NSIG - 1) : IsOkBool(contains(s, i), FALSE)

\* clear() has just run on a set equal to all().
C8_Witness == last.op = "clear" /\ last.pre = all /\ last.ok

\* C9: for i in [1, NSIG), a successful add(i) leaves contains(i) Ok(true)
\* and a successful remove(i) leaves contains(i) Ok(false); either mutation
\* leaves the membership of every other identifier as it was.
C9_AddRemoveContains ==
    /\ (last.op = "add" /\ InRange(last.num)) =>
         /\ last.ok
         /\ IsOkBool(contains(s, last.num), TRUE)
         /\ \A j \in ValidSigs \ {last.num} :
              contains(s, j) = contains(last.pre, j)
    /\ (last.op = "remove" /\ InRange(last.num)) =>
         /\ last.ok
         /\ IsOkBool(contains(s, last.num), FALSE)
         /\ \A j \in ValidSigs \ {last.num} :
              contains(s, j) = contains(last.pre, j)

\* remove(i) has just succeeded on a set that held i together with another
\* identifier.
C9_Witness ==
    /\ last.op = "remove" /\ last.ok /\ InRange(last.num)
    /\ last.num \in last.pre
    /\ s # {}

\* C10: after self.extend(&other) returns Ok, for every i in [1, NSIG),
\* self.contains(i) holds exactly when i was in self before or is in other;
\* nothing self held before is removed, and other is unchanged.
C10_ExtendIsUnion ==
    last.op = "extend" =>
        /\ last.ok
        /\ \A i \in 1 .. (NSIG - 1) :
             IsOkBool(contains(s, i),
                      contains(last.pre, i).val \/ contains(last.arg, i).val)
        /\ \A i \in ValidSigs : contains(last.pre, i).val => contains(s, i).val
        /\ o = last.arg

\* extend has just merged a non-empty other into a set holding something
\* other does not hold.
C10_Witness ==
    /\ last.op = "extend" /\ last.ok
    /\ last.arg # {} /\ last.pre \ last.arg # {} /\ last.arg \ last.pre # {}

\* C6: for every identifier id >= NSIG, add(id), remove(id) and
\* sigaction(id, _) fail with the invalid-identifier error and leave the set
\* (or the dispositions) unchanged.
C6_BeyondNsigFails ==
    /\ (last.op \in {"add", "remove"} /\ last.num >= NSIG) =>
         ~last.ok /\ last.errno = EINVAL /\ s = last.pre
    /\ (last.op = "sigaction" /\ last.num >= NSIG) =>
         ~last.ok /\ last.errno = EINVAL /\ disp = last.preDisp

--------------------------------------------------------------------------
(* Claims about the thread's mask, wait and raise, checked under SpecMask *)

\* C1 as stated: thread_get_mask() returns the fold of the block (union),
\* unblock (difference) and set_mask (replacement) calls over the initial
\* mask; after thread_block of a set holding x the queried mask holds x, and
\* after thread_unblock of that set it does not.
C1_MaskIsFold ==
    /\ last.op = "thread_get_mask" => last.ok /\ last.set = folded
    /\ last.op = "thread_block" =>
         \A x \in last.arg : IsOkBool(contains(thread_get_mask(mask, {}).old, x), TRUE)
    /\ last.op = "thread_unblock" =>
         \A x \in last.arg : IsOkBool(contains(thread_get_mask(mask, {}).old, x), FALSE)

\* C1 amended: the same with SIGKILL and SIGSTOP, which are never blocked,
\* taken out of the fold and out of the signals x ranges over.
C1_MaskIsFoldWithoutUnblockable ==
    /\ last.op = "thread_get_mask" => last.ok /\ last.set = folded \ Unblockable
    /\ last.op = "thread_block" =>
         /\ last.ok
         /\ \A x \in last.arg \ Unblockable :
              IsOkBool(contains(thread_get_mask(mask, {}).old, x), TRUE)
    /\ last.op = "thread_unblock" =>
         /\ last.ok
         /\ \A x \in last.arg :
              IsOkBool(contains(thread_get_mask(mask, {}).old, x), FALSE)
    /\ last.op = "thread_set_mask" => last.ok

\* The mask has just been queried after blocking went through a set that
\* holds SIGKILL besides a blockable signal.
C1_Witness ==
    /\ last.op = "thread_get_mask" /\ last.ok
    /\ folded \cap Unblockable # {}
    /\ last.set # {}

\* C2: for every mask M, set new and mode among SIG_BLOCK, SIG_UNBLOCK and
\* SIG_SETMASK, new.thread_swap_mask(mode) returns exactly M and installs new
\* under that mode (as the OS installs a mask), and swapping the returned
\* value back in under SIG_SETMASK restores the mask to exactly M.
C2_SwapReturnsOldAndRestores ==
    (last.op = "thread_swap_mask"
        /\ last.how \in {SIG_BLOCK, SIG_UNBLOCK, SIG_SETMASK}) =>
        /\ last.ok
        /\ last.set = last.pre
        /\ mask = ApplyHow(last.how, last.pre, last.arg) \ Unblockable
        /\ LET back == thread_swap_mask(mask, last.set, SIG_SETMASK, {}) IN
           /\ back.ok
           /\ back.mask = last.pre
           /\ back.old = mask

\* A swap under SIG_BLOCK has just changed a non-empty mask.
C2_Witness ==
    /\ last.op = "thread_swap_mask" /\ last.how = SIG_BLOCK /\ last.ok
    /\ last.pre # {} /\ mask # last.pre

\* C3 as stated: with A and B blocked and A just sent by raise(A), wait() on
\* {A, B} returns Ok(A), runs no handler, and leaves A no longer pending.
C3_WaitReturnsRaised ==
    (last.op = "wait" /\ last.num # 0 /\ last.num \in last.arg
        /\ Cardinality(last.arg) = 2 /\ last.arg \subseteq last.pre) =>
        /\ last.ok
        /\ last.sig = last.num
        /\ handled = last.preHandled
        /\ last.num \notin pending

\* C3 amended: with A and B blocked and A the only signal of {A, B} that is
\* pending, wait() on {A, B} returns Ok(A), runs no handler, and leaves A no
\* longer pending.
C3_WaitReturnsOnlyPending ==
    \A A \in ValidSigs :
        (last.op = "wait" /\ Cardinality(last.arg) = 2
            /\ last.arg \subseteq last.pre
            /\ last.prePending \cap last.arg = {A}) =>
            /\ last.ok
            /\ last.sig = A
            /\ handled = last.preHandled
            /\ A \notin pending
            /\ mask = last.pre

\* wait() on {SIGUSR1, SIGUSR2}, both blocked, has just taken the SIGUSR1
\* that the call before it raised.
C3_Witness ==
    /\ last.op = "wait" /\ last.arg = {SIGUSR1, SIGUSR2}
    /\ last.arg \subseteq last.pre
    /\ last.num = SIGUSR1 /\ last.prePending = {SIGUSR1}
    /\ last.ok /\ last.sig = SIGUSR1

\* C7: whenever the OS call behind a wrapper reports an error the wrapper
\* returns Err, and a wrapper that returns Ok hands back only an output the
\* OS wrote.
C7_NoSwallowedError ==
    /\ last.oserr => ~last.ok
    /\ (last.ok /\ last.op \in {"thread_get_mask", "thread_swap_mask", "wait",
                                "sigaction"}) => last.wrote

--------------------------------------------------------------------------
(* Claims about dispositions, checked under SpecAct *)

\* C4: a successful sigaction(id, d) replaces the disposition of id in the
\* process's one table of dispositions with d and returns the disposition
\* in effect just before; installing the returned disposition again restores
\* the prior one, and no other signal's disposition changes in either call.
C4_SigactionSwapsDisposition ==
    (last.op = "sigaction" /\ last.ok) =>
        /\ disp[last.num] = last.new
        /\ last.act = last.preDisp[last.num]
        /\ \A n \in ValidSigs \ {last.num} : disp[n] = last.preDisp[n]
        /\ LET back == sigaction(disp, pending, last.num, last.act) IN
           /\ back.ok
           /\ back.disp = last.preDisp
           /\ back.old = last.new

\* sigaction has just replaced a disposition that was itself installed, by
\* a different one.
C4_Witness ==
    /\ last.op = "sigaction" /\ last.ok
    /\ last.act # NoAct /\ last.act # last.new

\* C5: the disposition SigAction::new builds has SA_SIGINFO set exactly when
\* the handler is the SigHandler::SigAction variant, whatever the caller's
\* flags say about SA_SIGINFO; every other flag is as the caller gave it.
C5_SiginfoFollowsHandler ==
    last.op = "new" =>
        /\ ("SA_SIGINFO" \in sa.flags) <=> (last.handler = "SigAction")
        /\ sa.flags \ {"SA_SIGINFO"} = last.flags \ {"SA_SIGINFO"}
        /\ sa.handler = last.handler
        /\ sa.mask = last.arg

\* A plain handler has just been given flags that ask for SA_SIGINFO.
C5_Witness ==
    /\ last.op = "new" /\ last.handler = "Handler"
    /\ last.flags = {"SA_RESTART", "SA_SIGINFO"}

==========================================================================
